---------------------------- MODULE Spec2Model ----------------------------
(***************************************************************************)
(* Model of vlanse/dbmigrate: the chain resolver findMigrationsToApply,    *)
(* the transactional applier applyMigration (with wrapTx/withTx) and the   *)
(* Upgrade orchestrator, over an abstract database holding the migration   *)
(* log, the committed effects and the foreign-key enforcement switch.      *)
(***************************************************************************)
EXTENDS Integers, Sequences, FiniteSets, TLC

VARIABLES
    migrations,   \* the migrations passed to Upgrade / findMigrationsToApply
    applied,      \* the applied ids, as read from the log
    targetID,     \* the target migration id, "" for none
    out,          \* what findMigrationsToApply did: return (res, err), panic
    dialect,      \* the dialect name passed to Upgrade
    pc,           \* position of the running Upgrade call
    calls,        \* number of Upgrade calls started
    tableExists,  \* the migrations table exists
    log,          \* committed rows of the migrations table, in insertion order
    effects,      \* committed effects of hooks and statements
    tx,           \* the open transaction: its pending effects and log rows
    fkOn,         \* foreign-key enforcement of the connection
    idx,          \* 1-based index into out.res of the migration being applied
    si,           \* 1-based index of the next statement segment to execute
    err,          \* err of applyMigration's transaction (wrapTx)
    aret,         \* value returned by applyMigration
    ret,          \* value returned by Upgrade
    committed,    \* history: ids whose transaction committed
    trace,        \* history: steps of the current applyMigration, in order
    started,      \* history: ids applyMigration was called with in this Upgrade call
    failed,       \* history: ids for which applyMigration returned an error in this call
    prevCall,     \* history: the target of the previous Upgrade call, the migration
                  \* it failed at ("" if none) and the ids it had left to apply
    atStart       \* history: the database as the running Upgrade call found it

resolverVars == <<migrations, applied, targetID, out>>
dbVars == <<tableExists, log, effects, tx, fkOn>>
runVars == <<dialect, pc, calls, idx, si, err, aret, ret>>
histVars == <<committed, trace, started, failed, prevCall, atStart>>
vars == <<resolverVars, dbVars, runVars, histVars>>

(***************************************************************************)
(* Bounds of the model.                                                    *)
(***************************************************************************)
MaxMigrations == 3
MaxCalls == 2

(***************************************************************************)
(* Values.  Strings of the program are strings here; "" is Go's empty      *)
(* string.  An error value is a tuple <<message, args...>>, nil is <<>>.    *)
(***************************************************************************)
NilErr == <<>>

IdNames == <<"1", "2", "3", "4", "5", "6", "7", "8">>
IDs == {IdNames[i] : i \in 1..MaxMigrations}

Migration(previous, id) ==
    [Previous |-> previous, ID |-> id, Desc |-> "", Stmt |-> <<>>,
     PreUpgrade |-> "nil", PostUpgrade |-> "nil", DisableFK |-> FALSE]

(***************************************************************************)
(* Go maps: a map is a function whose domain is its key set.               *)
(***************************************************************************)
MapPut(f, k, v) == [x \in (DOMAIN f) \cup {k} |-> IF x = k THEN v ELSE f[x]]

aMapOf(appliedList) == {appliedList[i] : i \in DOMAIN appliedList}

(***************************************************************************)
(* findMigrationsToApply, first loop: builds mMap (by ID) and rmMap (by    *)
(* Previous), rejects an empty ID, a duplicate ID and a duplicate          *)
(* Previous, and looks for a Previous that is an applied id.               *)
(***************************************************************************)
\* mutant: the applied ids are looked up by the ID of a migration, not by its
\* Previous
RECURSIVE buildMaps_matchesID(_, _, _, _, _, _)
buildMaps_matchesID(mm, aMap, i, mMap, rmMap, appliedFound) ==
    IF i > Len(mm)
    THEN [err |-> NilErr, mMap |-> mMap, rmMap |-> rmMap, appliedFound |-> appliedFound]
    ELSE LET m == mm[i]
             af == appliedFound \/ (m.ID \in aMap)
         IN  IF m.ID = ""
             THEN [err |-> <<"migration ID cannot be empty">>,
                   mMap |-> mMap, rmMap |-> rmMap, appliedFound |-> appliedFound]
             ELSE IF m.ID \in DOMAIN mMap
             THEN [err |-> <<"migration with ID already exists, parent migration",
                             m.ID, mMap[m.ID].Previous>>,
                   mMap |-> mMap, rmMap |-> rmMap, appliedFound |-> af]
             ELSE IF m.Previous \in DOMAIN rmMap
             THEN [err |-> <<"migration with ID already exists, next migration",
                             m.Previous, rmMap[m.Previous]>>,
                   mMap |-> mMap, rmMap |-> rmMap, appliedFound |-> af]
             ELSE buildMaps_matchesID(mm, aMap, i + 1, MapPut(mMap, m.ID, m),
                                      MapPut(rmMap, m.Previous, m.ID), af)

\* mutant: a repeated ID replaces the earlier migration instead of being an error
RECURSIVE buildMaps_noDuplicateID(_, _, _, _, _, _)
buildMaps_noDuplicateID(mm, aMap, i, mMap, rmMap, appliedFound) ==
    IF i > Len(mm)
    THEN [err |-> NilErr, mMap |-> mMap, rmMap |-> rmMap, appliedFound |-> appliedFound]
    ELSE LET m == mm[i]
             af == appliedFound \/ (m.Previous \in aMap)
         IN  IF m.ID = ""
             THEN [err |-> <<"migration ID cannot be empty">>,
                   mMap |-> mMap, rmMap |-> rmMap, appliedFound |-> appliedFound]
             ELSE IF m.Previous \in DOMAIN rmMap
             THEN [err |-> <<"migration with ID already exists, next migration",
                             m.Previous, rmMap[m.Previous]>>,
                   mMap |-> mMap, rmMap |-> rmMap, appliedFound |-> af]
             ELSE buildMaps_noDuplicateID(mm, aMap, i + 1, MapPut(mMap, m.ID, m),
                                          MapPut(rmMap, m.Previous, m.ID), af)

RECURSIVE buildMaps(_, _, _, _, _, _)
buildMaps(mm, aMap, i, mMap, rmMap, appliedFound) ==
    IF i > Len(mm)
    THEN [err |-> NilErr, mMap |-> mMap, rmMap |-> rmMap, appliedFound |-> appliedFound]
    ELSE LET m == mm[i]
             af == appliedFound \/ (m.Previous \in aMap)
         IN  IF m.ID = ""
             THEN [err |-> <<"migration ID cannot be empty">>,
                   mMap |-> mMap, rmMap |-> rmMap, appliedFound |-> appliedFound]
             ELSE IF m.ID \in DOMAIN mMap
             THEN [err |-> <<"migration with ID already exists, parent migration",
                             m.ID, mMap[m.ID].Previous>>,
                   mMap |-> mMap, rmMap |-> rmMap, appliedFound |-> af]
             ELSE IF m.Previous \in DOMAIN rmMap
             THEN [err |-> <<"migration with ID already exists, next migration",
                             m.Previous, rmMap[m.Previous]>>,
                   mMap |-> mMap, rmMap |-> rmMap, appliedFound |-> af]
             ELSE buildMaps(mm, aMap, i + 1, MapPut(mMap, m.ID, m),
                            MapPut(rmMap, m.Previous, m.ID), af)

(***************************************************************************)
(* Second loop: initialID is a *string, <<>> is nil and <<s>> points to s. *)
(***************************************************************************)
\* mutant: a second dangling Previous replaces the first instead of being an error
RECURSIVE findInitial_lastWins(_, _, _, _)
findInitial_lastWins(mm, mMap, i, initialID) ==
    IF i > Len(mm)
    THEN [err |-> NilErr, initialID |-> initialID]
    ELSE LET m == mm[i]
         IN  IF m.Previous \notin DOMAIN mMap
             THEN findInitial_lastWins(mm, mMap, i + 1, <<m.Previous>>)
             ELSE findInitial_lastWins(mm, mMap, i + 1, initialID)

RECURSIVE findInitial(_, _, _, _)
findInitial(mm, mMap, i, initialID) ==
    IF i > Len(mm)
    THEN [err |-> NilErr, initialID |-> initialID]
    ELSE LET m == mm[i]
         IN  IF m.Previous \notin DOMAIN mMap
             THEN IF initialID # <<>>
                  THEN [err |-> <<"migration has invalid previous migration ID",
                                  m.ID, m.Previous>>,
                        initialID |-> initialID]
                  ELSE findInitial(mm, mMap, i + 1, <<m.Previous>>)
             ELSE findInitial(mm, mMap, i + 1, initialID)

(***************************************************************************)
(* The linearization walk.  rmMap is a function of the current id, so a    *)
(* walk that is about to append more entries than mMap has keys has        *)
(* revisited a migration and never ends: it is reported as diverged.       *)
(***************************************************************************)
RECURSIVE walk(_, _, _, _)
walk(mMap, rmMap, cur, ordered) ==
    IF cur \notin DOMAIN rmMap
    THEN [ordered |-> ordered, diverged |-> FALSE]
    ELSE IF Len(ordered) >= Cardinality(DOMAIN mMap)
    THEN [ordered |-> ordered, diverged |-> TRUE]
    ELSE LET mID == rmMap[cur]
         IN  walk(mMap, rmMap, mID, Append(ordered, mMap[mID]))

(***************************************************************************)
(* The scan of the total order: st = <<latestApplied, target>>, indices    *)
(* are Go's (0-based).                                                     *)
(***************************************************************************)
\* mutant: the scan keeps the first applied migration, not the last
RECURSIVE scanOrdered_firstApplied(_, _, _, _, _, _)
scanOrdered_firstApplied(ordered, aMap, tgtID, i, latestApplied, target) ==
    IF i >= Len(ordered)
    THEN [latestApplied |-> latestApplied, target |-> target]
    ELSE LET m == ordered[i + 1]
         IN  scanOrdered_firstApplied(ordered, aMap, tgtID, i + 1,
                         IF m.ID \in aMap /\ latestApplied = -1 THEN i ELSE latestApplied,
                         IF m.ID = tgtID THEN i + 1 ELSE target)

RECURSIVE scanOrdered(_, _, _, _, _, _)
scanOrdered(ordered, aMap, tgtID, i, latestApplied, target) ==
    IF i >= Len(ordered)
    THEN [latestApplied |-> latestApplied, target |-> target]
    ELSE LET m == ordered[i + 1]
         IN  scanOrdered(ordered, aMap, tgtID, i + 1,
                         IF m.ID \in aMap THEN i ELSE latestApplied,
                         IF m.ID = tgtID THEN i + 1 ELSE target)

\* ordered[lo:hi] of Go, 0-based, lo inclusive, hi exclusive
Slice(s, lo, hi) == SubSeq(s, lo + 1, hi)

Returned(res, e) == [kind |-> "return", res |-> res, err |-> e]
Panicked(why) == [kind |-> "panic", res |-> <<>>, err |-> <<why>>]
Diverged == [kind |-> "diverge", res |-> <<>>, err |-> NilErr]

\* mutant: the slice starts one migration too late
sliceResult_skipsOne(ordered, latestApplied, target) ==
    IF target - 1 <= latestApplied
    THEN Returned(<<>>, NilErr)
    ELSE Returned(Slice(ordered, latestApplied + 2, target), NilErr)

\* mutant: the slice starts at the head of the order, not after the last applied
sliceResult_fromStart(ordered, latestApplied, target) ==
    IF target - 1 <= latestApplied
    THEN Returned(<<>>, NilErr)
    ELSE Returned(Slice(ordered, 0, target), NilErr)

sliceResult(ordered, latestApplied, target) ==
    IF target - 1 <= latestApplied
    THEN Returned(<<>>, NilErr)
    ELSE Returned(Slice(ordered, latestApplied + 1, target), NilErr)

findMigrationsToApply(mm, appliedList, tgtID) ==
    LET aMap == aMapOf(appliedList)
        b == buildMaps(mm, aMap, 1, <<>>, <<>>, aMap = {})
    IN  IF b.err # NilErr THEN Returned(<<>>, b.err)
        ELSE
        LET a == findInitial(mm, b.mMap, 1, <<>>)
        IN  IF a.err # NilErr THEN Returned(<<>>, a.err)
            ELSE IF ~b.appliedFound
            THEN Returned(<<>>,
                   <<"provided migration does not correlate with already applied migrations">>)
            ELSE IF tgtID # "" /\ tgtID \notin DOMAIN b.mMap
            THEN Returned(<<>>, <<"target migration with ID not found", tgtID>>)
            ELSE IF a.initialID = <<>>
            THEN Panicked("nil pointer dereference")
            ELSE
            LET w == walk(b.mMap, b.rmMap, a.initialID[1], <<>>)
            IN  IF w.diverged THEN Diverged
                ELSE
                LET s == scanOrdered(w.ordered, aMap, tgtID, 0, -1, Len(w.ordered))
                IN  sliceResult(w.ordered, s.latestApplied, s.target)

(***************************************************************************)
(* Inputs of the resolver.  findMigrationsToApply only compares strings    *)
(* with each other and with "", so it commutes with every renaming of the  *)
(* non-empty strings: the lists are drawn up to such a renaming (the names *)
(* first occur in the order of IdNames, reading Previous, ID, Previous,    *)
(* ... along the list), while the applied ids and the target range over    *)
(* all names.                                                              *)
(***************************************************************************)
Strings == {""} \cup IDs

SeqsUpTo(S, n) == UNION {[1..k -> S] : k \in 0..n}

Flatten(mm) ==
    [j \in 1..(2 * Len(mm)) |->
        IF j % 2 = 1 THEN mm[(j + 1) \div 2].Previous ELSE mm[j \div 2].ID]

Canonical(mm) ==
    LET f == Flatten(mm)
    IN  \A j \in DOMAIN f : \A k \in 2..MaxMigrations :
            f[j] = IdNames[k] => \E h \in 1..(j - 1) : f[h] = IdNames[k - 1]

MigrationLists ==
    {mm \in SeqsUpTo({Migration(p, i) : p \in Strings, i \in Strings}, MaxMigrations) :
        Canonical(mm)}

RECURSIVE SetToSeq(_)
SetToSeq(S) == IF S = {} THEN <<>>
               ELSE LET x == CHOOSE y \in S : TRUE IN <<x>> \o SetToSeq(S \ {x})

AppliedLists == {SetToSeq(S) : S \in SUBSET IDs}

NotCalled == [kind |-> "none", res |-> <<>>, err |-> NilErr]

(***************************************************************************)
(* The database and the dialects.                                          *)
(***************************************************************************)
DialectSQLite == "sqlite3"
DialectMySQL == "mysql"

NoTx == [open |-> FALSE, effects |-> {}, rows |-> <<>>]

\* outcomes of dialectSupp.ensureFKChecksEnabled on a connection whose
\* enforcement is fk: the error returned and the enforcement left behind
ensureFKChecksEnabled(d, fk) ==
    IF d = DialectSQLite
    THEN {[err |-> NilErr, fkOn |-> TRUE],
          [err |-> <<"sqlite: error enabling foreign keys">>, fkOn |-> fk]}
    ELSE {[err |-> NilErr, fkOn |-> fk]}

\* PRAGMA foreign_keys = ON; PRAGMA legacy_alter_table = OFF: a failure of the
\* second statement leaves enforcement on
enableFKs(d, fk) ==
    IF d = DialectSQLite
    THEN {[err |-> NilErr, fkOn |-> TRUE],
          [err |-> <<"sqlite: disable FK constraints">>, fkOn |-> fk],
          [err |-> <<"sqlite: disable FK constraints">>, fkOn |-> TRUE]}
    ELSE {[err |-> NilErr, fkOn |-> fk]}

\* PRAGMA legacy_alter_table = ON; PRAGMA foreign_keys = OFF
disableFKs(d, fk) ==
    IF d = DialectSQLite
    THEN {[err |-> NilErr, fkOn |-> FALSE],
          [err |-> <<"sqlite: disable FK constraints">>, fkOn |-> fk]}
    ELSE {[err |-> NilErr, fkOn |-> fk]}

saveMigrationToLogErr(d) ==
    IF d = DialectSQLite THEN <<"sqlite: save migration info to db">>
    ELSE <<"mysql: save migration info to db">>

(***************************************************************************)
(* Statements: Stmt is a string, here the sequence of its characters.      *)
(***************************************************************************)
Whitespace == {" ", "\n", "\t"}

RECURSIVE Split(_, _)
Split(s, sep) ==
    IF \A i \in DOMAIN s : s[i] # sep
    THEN <<s>>
    ELSE LET k == CHOOSE i \in DOMAIN s :
                    s[i] = sep /\ \A h \in 1..(i - 1) : s[h] # sep
         IN  <<SubSeq(s, 1, k - 1)>> \o Split(SubSeq(s, k + 1, Len(s)), sep)

\* strings.TrimSpace(stmt) == ""
IsBlank(stmt) == \A i \in DOMAIN stmt : stmt[i] \in Whitespace

\* index of the first non-blank segment at or after from, 0 when there is none
NextStmt(segs, from) ==
    IF \E j \in from..Len(segs) : ~IsBlank(segs[j])
    THEN CHOOSE j \in from..Len(segs) :
            ~IsBlank(segs[j]) /\ \A h \in from..(j - 1) : IsBlank(segs[h])
    ELSE 0

(***************************************************************************)
(* The migrations given to Upgrade: chains "1" <- "2" <- ... whose         *)
(* migrations take their statements, hooks and DisableFK from a menu, and  *)
(* some malformed sets.                                                    *)
(***************************************************************************)
Bodies ==
    << [Desc |-> "plain", Stmt |-> <<"a", ";", " ", ";", "b">>,
        PreUpgrade |-> "nil", PostUpgrade |-> "nil", DisableFK |-> FALSE],
       [Desc |-> "hooks", Stmt |-> <<"\n", "c", ";", "\n">>,
        PreUpgrade |-> "fn", PostUpgrade |-> "fn", DisableFK |-> FALSE],
       [Desc |-> "fk", Stmt |-> <<"d">>,
        PreUpgrade |-> "nil", PostUpgrade |-> "fn", DisableFK |-> TRUE] >>

WithBody(previous, id, b) ==
    [Previous |-> previous, ID |-> id, Desc |-> b.Desc, Stmt |-> b.Stmt,
     PreUpgrade |-> b.PreUpgrade, PostUpgrade |-> b.PostUpgrade,
     DisableFK |-> b.DisableFK]

\* the chain of n migrations whose i-th migration has the body r + i of the
\* menu, cyclically
Chain(n, r) ==
    [i \in 1..n |->
        WithBody(IF i = 1 THEN "" ELSE IdNames[i - 1], IdNames[i],
                 Bodies[((r + i) % Len(Bodies)) + 1])]

Chains == {Chain(n, r) : n \in 1..MaxMigrations, r \in DOMAIN Bodies}

Malformed ==
    { <<>>,
      <<WithBody("2", "1", Bodies[1]), WithBody("1", "2", Bodies[1])>>,
      <<WithBody("", "1", Bodies[3]), WithBody("3", "2", Bodies[1]),
        WithBody("2", "3", Bodies[1])>>,
      <<WithBody("", "1", Bodies[1]), WithBody("", "2", Bodies[1])>> }

Dialects == {DialectSQLite, DialectMySQL, "postgres"}

(***************************************************************************)
(* The resolver alone, on every input within the bounds.                   *)
(***************************************************************************)
Idle ==
    /\ pc = "idle" /\ calls = 0
    /\ tableExists = FALSE /\ log = <<>> /\ effects = {} /\ tx = NoTx
    /\ idx = 0 /\ si = 0 /\ err = NilErr /\ aret = NilErr /\ ret = NilErr
    /\ committed = {} /\ trace = <<>> /\ started = <<>> /\ failed = <<>>
    /\ prevCall = [failed |-> "", targetID |-> "", tail |-> <<>>]
    /\ atStart = [tableExists |-> FALSE, log |-> <<>>, effects |-> {}, fkOn |-> TRUE]

InitResolve ==
    /\ migrations \in MigrationLists
    /\ applied \in AppliedLists
    /\ targetID \in Strings
    /\ out = NotCalled
    /\ dialect = DialectSQLite /\ fkOn = TRUE
    /\ Idle

Resolve ==
    /\ out.kind = "none"
    /\ out' = findMigrationsToApply(migrations, applied, targetID)
    /\ UNCHANGED <<migrations, applied, targetID, dbVars, runVars, histVars>>

NextResolve == Resolve

SpecResolve == InitResolve /\ [][NextResolve]_vars

(***************************************************************************)
(* Vocabulary of the claims about the resolver, defined on the migration   *)
(* set itself, independently of findMigrationsToApply.                     *)
(***************************************************************************)
IdSet(mm) == {mm[i].ID : i \in DOMAIN mm}
PreviousSet(mm) == {mm[i].Previous : i \in DOMAIN mm}
IdsOf(mm) == [i \in DOMAIN mm |-> mm[i].ID]

Perms(n) == {p \in [1..n -> 1..n] : \A i, j \in 1..n : p[i] = p[j] => i = j}
Permute(mm, p) == [i \in DOMAIN mm |-> mm[p[i]]]

HasEmptyID(mm) == \E i \in DOMAIN mm : mm[i].ID = ""
HasDuplicateID(mm) == \E i, j \in DOMAIN mm : i # j /\ mm[i].ID = mm[j].ID
HasDuplicatePrevious(mm) ==
    \E i, j \in DOMAIN mm : i # j /\ mm[i].Previous = mm[j].Previous
AmbiguousAnchor(mm) == Cardinality(PreviousSet(mm) \ IdSet(mm)) > 1
\* some migrations form a closed loop: each follows another one of them
HasCycle(mm) ==
    \E S \in SUBSET (DOMAIN mm) :
        S # {} /\ \A i \in S : \E j \in S : mm[i].Previous = mm[j].ID
UnknownTarget(mm, t) == t # "" /\ t \notin IdSet(mm)

\* s lists a chain in chain order
IsChainOrder(s) ==
    /\ Len(s) >= 1
    /\ \A i \in DOMAIN s : s[i].ID # ""
    /\ \A i, j \in DOMAIN s : s[i].ID = s[j].ID => i = j
    /\ s[1].Previous \notin IdSet(s)
    /\ \A i \in 2..Len(s) : s[i].Previous = s[i - 1].ID

ValidChain(mm) ==
    /\ ~HasEmptyID(mm) /\ ~HasDuplicateID(mm) /\ ~HasDuplicatePrevious(mm)
    /\ \E p \in Perms(Len(mm)) : IsChainOrder(Permute(mm, p))
ChainOf(mm) == Permute(mm, CHOOSE p \in Perms(Len(mm)) : IsChainOrder(Permute(mm, p)))

\* position in the chain c of its last migration whose id is applied, 0 if none
LastApplied(c, ids) ==
    IF \E i \in DOMAIN c : c[i].ID \in ids
    THEN CHOOSE i \in DOMAIN c :
            c[i].ID \in ids /\ \A j \in (i + 1)..Len(c) : c[j].ID \notin ids
    ELSE 0
PositionOf(c, id) == CHOOSE i \in DOMAIN c : c[i].ID = id

Resolved == out.kind # "none"
Rejected == out.kind = "return" /\ out.err # NilErr /\ out.res = <<>>
NothingToDo == out = Returned(<<>>, NilErr)

\* C1 (as claimed): whenever the target is already satisfied on a valid chain
\* - no target and every id of the chain applied, or a target that is at or
\* before the last applied migration in chain order (an applied target is
\* such a target) - findMigrationsToApply returns an empty result and no error.
TargetSatisfied ==
    /\ ValidChain(migrations)
    /\ \/ targetID = "" /\ aMapOf(applied) = IdSet(migrations)
       \/ /\ targetID \in IdSet(migrations)
          /\ PositionOf(ChainOf(migrations), targetID)
                <= LastApplied(ChainOf(migrations), aMapOf(applied))
C1_SatisfiedTargetReturnsEmpty ==
    (Resolved /\ TargetSatisfied) => NothingToDo

\* C2: on a valid chain id_1..id_N, with no target, when the last applied
\* migration in chain order is id_K, K < N (K = 0: nothing is applied), the
\* result is exactly id_K+1..id_N in chain order, each returned migration
\* following the one before it, whatever earlier ids the applied set lacks.
C2_Case ==
    /\ Resolved /\ targetID = "" /\ ValidChain(migrations)
    /\ LastApplied(ChainOf(migrations), aMapOf(applied)) < Len(migrations)
    /\ LastApplied(ChainOf(migrations), aMapOf(applied)) = 0 => applied = <<>>
C2_ReturnsRemainingTail ==
    C2_Case =>
        LET c == ChainOf(migrations)
            k == LastApplied(c, aMapOf(applied))
        IN  /\ out = Returned(SubSeq(c, k + 1, Len(c)), NilErr)
            /\ \A i \in 2..Len(out.res) : out.res[i].Previous = out.res[i - 1].ID
            /\ \A i \in DOMAIN out.res : PositionOf(c, out.res[i].ID) > k
C2_Witness ==
    /\ C2_Case
    /\ Len(migrations) = 3
    /\ aMapOf(applied) = {ChainOf(migrations)[2].ID}
    /\ IdsOf(out.res) = <<ChainOf(migrations)[3].ID>>

\* C3 (as claimed): the result does not depend on the declaration order: on a
\* valid set every permutation of the input yields the same ordered result,
\* and on an invalid set (an empty id, a duplicate id, a duplicate previous,
\* an ambiguous anchor, a cycle) every permutation yields an error.
InvalidSet(mm) ==
    \/ HasEmptyID(mm) \/ HasDuplicateID(mm) \/ HasDuplicatePrevious(mm)
    \/ AmbiguousAnchor(mm) \/ HasCycle(mm)
C3_OrderIndependent ==
    Resolved =>
        \A p \in Perms(Len(migrations)) :
            LET o == findMigrationsToApply(Permute(migrations, p), applied, targetID)
            IN  /\ ValidChain(migrations) => o = out
                /\ InvalidSet(migrations) => o.kind = "return" /\ o.err # NilErr

\* C4 (as claimed): every migration set that contains a cycle is rejected
\* with a returned error and no result.
C4_CycleRejected ==
    (Resolved /\ HasCycle(migrations)) => Rejected

\* C5: an error and a nil result are returned whenever some migration has an
\* empty ID, two migrations share an ID, two share a Previous, more than one
\* distinct Previous matches no ID, or a non-empty target matches no ID.
C5_Case ==
    /\ Resolved
    /\ \/ HasEmptyID(migrations) \/ HasDuplicateID(migrations)
       \/ HasDuplicatePrevious(migrations) \/ AmbiguousAnchor(migrations)
       \/ UnknownTarget(migrations, targetID)
C5_MalformedRejected == C5_Case => Rejected
C5_Witness ==
    /\ C5_Case
    /\ AmbiguousAnchor(migrations)
    /\ ~HasEmptyID(migrations) /\ ~HasDuplicateID(migrations)
    /\ ~HasDuplicatePrevious(migrations)
    /\ out.err[1] = "migration has invalid previous migration ID"

NotCorrelated ==
    <<"provided migration does not correlate with already applied migrations">>

\* some id is applied, and none of the applied ids is the Previous of a migration
Uncorrelated ==
    applied # <<>> /\ aMapOf(applied) \cap PreviousSet(migrations) = {}

C13_Case == Resolved /\ Uncorrelated
C14_Case ==
    /\ Resolved /\ out.kind = "return" /\ out.err = NilErr
    /\ targetID # "" /\ out.res # <<>>
C14_TargetBoundsResult ==
    C14_Case =>
        /\ out.res[Len(out.res)].ID = targetID
        /\ ValidChain(migrations) =>
              \A k \in DOMAIN out.res :
                  PositionOf(ChainOf(migrations), out.res[k].ID)
                      <= PositionOf(ChainOf(migrations), targetID)

\* the total order the walk builds, for an input that has passed the
\* validation steps and has an anchor
Walked ==
    LET b == buildMaps(migrations, aMapOf(applied), 1, <<>>, <<>>, applied = <<>>)
        a == findInitial(migrations, b.mMap, 1, <<>>)
    IN  walk(b.mMap, b.rmMap, a.initialID[1], <<>>)

\* C16: the linearization walk terminates on every input that passes the
\* validation steps: from the anchor it visits no migration twice and appends
\* at most len(migrations) entries, also when the set has a closed loop that
\* is disconnected from the anchor.
C16_Case == Resolved /\ (out.kind = "diverge" \/ (out.kind = "return" /\ out.err = NilErr))
C16_WalkTerminates ==
    /\ Resolved => out.kind # "diverge"
    /\ C16_Case =>
          /\ ~Walked.diverged
          /\ Len(Walked.ordered) <= Len(migrations)
          /\ \A k, h \in DOMAIN Walked.ordered :
                Walked.ordered[k].ID = Walked.ordered[h].ID => k = h
C16_Witness ==
    /\ C16_Case
    /\ HasCycle(migrations)
    /\ Len(migrations) = 3
    /\ Len(Walked.ordered) = 1

\* C18 (as claimed): findMigrationsToApply is total: on every input, the
\* empty migration list with an empty applied set included, it returns a
\* result or an error and never dereferences an anchor it has not found.
C18_Total == Resolved => out.kind = "return"

(***************************************************************************)
(* Upgrade.                                                                *)
(***************************************************************************)
Init ==
    /\ migrations \in Chains \cup Malformed
    /\ applied = <<>> /\ targetID = "" /\ out = NotCalled
    /\ dialect \in Dialects
    /\ fkOn \in (IF dialect = DialectSQLite THEN BOOLEAN ELSE {TRUE})
    /\ Idle

Cur == out.res[idx]

\* Upgrade returns e
Return(e) == pc' = "done" /\ ret' = e

\* mutant: the post-hook is never run
afterStmts_skipsPostHook(m) == "saveLog"

\* where applyMigration(m) goes once the transaction has begun, after its
\* pre-hook, after statement segment j
afterStmts(m) == IF m.PostUpgrade # "nil" THEN "post" ELSE "saveLog"
stmtsFrom(m, j) ==
    LET n == NextStmt(Split(m.Stmt, ";"), j)
    IN  IF n = 0 THEN [pc |-> afterStmts(m), si |-> 0] ELSE [pc |-> "stmt", si |-> n]
afterBegin(m) ==
    IF m.PreUpgrade # "nil" THEN [pc |-> "pre", si |-> 0] ELSE stmtsFrom(m, 1)

\* entry of applyMigration(m)
applyEntry(m) == IF m.DisableFK THEN "disableFKs" ELSE "begin"

StartUpgrade(t) ==
    /\ pc \in {"idle", "done", "panic"}
    /\ calls < MaxCalls
    /\ calls' = calls + 1
    /\ targetID' = t
    /\ prevCall' = IF failed # <<>>
                   THEN [failed |-> failed[1], targetID |-> targetID,
                         tail |-> [j \in 1..(Len(out.res) - idx + 1) |->
                                      out.res[idx + j - 1].ID]]
                   ELSE [failed |-> "", targetID |-> "", tail |-> <<>>]
    /\ atStart' = [tableExists |-> tableExists, log |-> log, effects |-> effects,
                    fkOn |-> fkOn]
    /\ out' = NotCalled /\ applied' = <<>>
    /\ idx' = 0 /\ si' = 0 /\ err' = NilErr /\ aret' = NilErr /\ ret' = NilErr
    /\ trace' = <<>> /\ started' = <<>> /\ failed' = <<>>
    \* newDialectSupp panics on an unsupported dialect
    /\ pc' = IF dialect \in {DialectSQLite, DialectMySQL} THEN "ensureMigrationLog"
             ELSE "panic"
    /\ UNCHANGED <<migrations, dialect, dbVars, committed>>

EnsureMigrationLog ==
    /\ pc = "ensureMigrationLog"
    /\ \/ /\ tableExists' = TRUE
          /\ pc' = "ensureFKChecksEnabled"
          /\ UNCHANGED ret
       \/ /\ Return(<<"creating migration table">>)
          /\ UNCHANGED tableExists
    /\ UNCHANGED <<resolverVars, log, effects, tx, fkOn, dialect, calls, idx, si, err,
                   aret, histVars>>

EnsureFKChecksEnabled ==
    /\ pc = "ensureFKChecksEnabled"
    /\ \E o \in ensureFKChecksEnabled(dialect, fkOn) :
          /\ fkOn' = o.fkOn
          /\ IF o.err = NilErr
             THEN pc' = "getAppliedMigrations" /\ UNCHANGED ret
             ELSE Return(o.err)
    /\ UNCHANGED <<resolverVars, tableExists, log, effects, tx, dialect, calls, idx, si,
                   err, aret, histVars>>

GetAppliedMigrations ==
    /\ pc = "getAppliedMigrations"
    /\ \/ /\ applied' = [i \in DOMAIN log |-> log[i].id]
          /\ pc' = "findMigrationsToApply"
          /\ UNCHANGED ret
       \/ /\ Return(<<"query failed">>)
          /\ UNCHANGED applied
    /\ UNCHANGED <<migrations, targetID, out, dbVars, dialect, calls, idx, si, err, aret,
                   histVars>>

\* mutant: Upgrade drops the error of findMigrationsToApply and goes on with
\* its (empty) result
FindMigrations_dropsError ==
    /\ pc = "findMigrationsToApply"
    /\ LET o == findMigrationsToApply(migrations, applied, targetID)
       IN  /\ out' = o
           /\ IF o.kind = "panic" THEN pc' = "panic" /\ UNCHANGED <<ret, idx>>
              ELSE IF o.kind = "diverge" THEN pc' = "hang" /\ UNCHANGED <<ret, idx>>
              ELSE IF Len(o.res) = 0 THEN Return(NilErr) /\ UNCHANGED idx
              ELSE /\ idx' = 1
                   /\ pc' = applyEntry(o.res[1])
                   /\ UNCHANGED ret
    /\ started' = IF pc' \in {"disableFKs", "begin"} THEN <<out'.res[1].ID>> ELSE started
    /\ UNCHANGED <<migrations, applied, targetID, dbVars, dialect, calls, si, err, aret,
                   committed, trace, failed, prevCall, atStart>>

FindMigrations ==
    /\ pc = "findMigrationsToApply"
    /\ LET o == findMigrationsToApply(migrations, applied, targetID)
       IN  /\ out' = o
           /\ IF o.kind = "panic" THEN pc' = "panic" /\ UNCHANGED <<ret, idx>>
              ELSE IF o.kind = "diverge" THEN pc' = "hang" /\ UNCHANGED <<ret, idx>>
              ELSE IF o.err # NilErr THEN Return(o.err) /\ UNCHANGED idx
              ELSE IF Len(o.res) = 0 THEN Return(NilErr) /\ UNCHANGED idx
              ELSE /\ idx' = 1
                   /\ pc' = applyEntry(o.res[1])
                   /\ UNCHANGED ret
    /\ started' = IF pc' \in {"disableFKs", "begin"} THEN <<out'.res[1].ID>> ELSE started
    /\ UNCHANGED <<migrations, applied, targetID, dbVars, dialect, calls, si, err, aret,
                   committed, trace, failed, prevCall, atStart>>

(***************************************************************************)
(* applyMigration(db, ds, *m) for m = out.res[idx].                        *)
(***************************************************************************)
DisableFKs ==
    /\ pc = "disableFKs"
    /\ \E o \in disableFKs(dialect, fkOn) :
          /\ fkOn' = o.fkOn
          /\ IF o.err = NilErr
             THEN /\ pc' = "begin"
                  /\ trace' = Append(trace, <<"disableFKs", "ok">>)
                  /\ UNCHANGED aret
             ELSE /\ pc' = "applyReturn"
                  /\ aret' = o.err
                  /\ trace' = Append(trace, <<"disableFKs", "failed">>)
    /\ UNCHANGED <<resolverVars, tableExists, log, effects, tx, dialect, calls, idx, si,
                   err, ret, committed, started, failed, prevCall, atStart>>

\* mutant: applyMigration returns a failed transaction's error at once
afterTx_returnEarly(m) == IF m.DisableFK /\ err = NilErr THEN "enableFKs" ELSE "applyReturn"

\* where applyMigration goes when withTx has returned
afterTx(m) == IF m.DisableFK THEN "enableFKs" ELSE "applyReturn"

Begin ==
    /\ pc = "begin"
    /\ \/ /\ tx' = [open |-> TRUE, effects |-> {}, rows |-> <<>>]
          /\ pc' = afterBegin(Cur).pc
          /\ si' = afterBegin(Cur).si
          /\ trace' = Append(trace, <<"begin", "ok">>)
          /\ UNCHANGED <<err, aret>>
       \/ /\ err' = <<"begin failed">>
          /\ pc' = afterTx(Cur)
          /\ aret' = IF afterTx(Cur) = "applyReturn" THEN <<"begin failed">> ELSE aret
          /\ trace' = Append(trace, <<"begin", "failed">>)
          /\ UNCHANGED <<tx, si>>
    /\ UNCHANGED <<resolverVars, tableExists, log, effects, fkOn, dialect, calls, idx,
                   ret, committed, started, failed, prevCall, atStart>>

\* a hook: it succeeds, or fails after none or some of its writes, or panics;
\* on a panic wrapTx rolls back and panics again
Hook(at, name, next) ==
    /\ pc = at
    /\ \/ /\ tx' = [tx EXCEPT !.effects = @ \cup {<<Cur.ID, name>>}]
          /\ pc' = next.pc /\ si' = next.si
          /\ trace' = Append(trace, <<name, "ok">>)
          /\ UNCHANGED err
       \/ /\ \E part \in SUBSET {<<Cur.ID, name>>} :
                tx' = [tx EXCEPT !.effects = @ \cup part]
          /\ err' = <<"migration method failed", Cur.ID, name>>
          /\ pc' = "endTx"
          /\ trace' = Append(trace, <<name, "failed">>)
          /\ UNCHANGED si
       \/ /\ tx' = NoTx
          /\ pc' = "panic"
          /\ trace' = Append(trace, <<name, "panic">>)
          /\ UNCHANGED <<err, si>>
    /\ UNCHANGED <<resolverVars, tableExists, log, effects, fkOn, dialect, calls, idx,
                   aret, ret, committed, started, failed, prevCall, atStart>>

PreUpgrade == Hook("pre", "pre-upgrade", stmtsFrom(Cur, 1))

PostUpgrade == Hook("post", "post-upgrade", [pc |-> "saveLog", si |-> 0])

ExecStmt ==
    /\ pc = "stmt"
    /\ \/ /\ tx' = [tx EXCEPT !.effects = @ \cup {<<Cur.ID, "exec", si>>}]
          /\ pc' = stmtsFrom(Cur, si + 1).pc
          /\ si' = stmtsFrom(Cur, si + 1).si
          /\ trace' = Append(trace, <<"exec", "ok", si>>)
          /\ UNCHANGED err
       \/ /\ err' = <<"migration failed", Cur.ID>>
          /\ pc' = "endTx"
          /\ trace' = Append(trace, <<"exec", "failed", si>>)
          /\ UNCHANGED <<tx, si>>
    /\ UNCHANGED <<resolverVars, tableExists, log, effects, fkOn, dialect, calls, idx,
                   aret, ret, committed, started, failed, prevCall, atStart>>

SaveMigrationToLog ==
    /\ pc = "saveLog"
    /\ \/ /\ tx' = [tx EXCEPT !.rows = Append(@, [id |-> Cur.ID, desc |-> Cur.Desc])]
          /\ trace' = Append(trace, <<"saveMigrationToLog", "ok">>)
          /\ UNCHANGED err
       \/ /\ err' = saveMigrationToLogErr(dialect)
          /\ trace' = Append(trace, <<"saveMigrationToLog", "failed">>)
          /\ UNCHANGED tx
    /\ pc' = "endTx"
    /\ UNCHANGED <<resolverVars, tableExists, log, effects, fkOn, dialect, calls, idx, si,
                   aret, ret, committed, started, failed, prevCall, atStart>>

\* mutant: the deferred function commits whatever fn returned
wrapTxDecision_alwaysCommit(e) == "commit"

\* wrapTx's deferred function: what it does with the transaction given fn's
\* error, "rollback" or "commit"
wrapTxDecision(e) == IF e # NilErr THEN "rollback" ELSE "commit"

EndTx ==
    /\ pc = "endTx"
    /\ \E ok \in BOOLEAN :
          LET e == IF ok THEN err
                   ELSE IF wrapTxDecision(err) = "rollback" THEN <<"rollback failed">>
                   ELSE <<"commit failed">>
          IN  /\ IF wrapTxDecision(err) = "commit" /\ ok
                 THEN /\ effects' = effects \cup tx.effects
                      /\ log' = log \o tx.rows
                      /\ committed' = committed \cup {Cur.ID}
                 ELSE UNCHANGED <<effects, log, committed>>
              /\ err' = e
              /\ aret' = IF afterTx(Cur) = "applyReturn" THEN e ELSE aret
              /\ trace' = Append(trace, <<wrapTxDecision(err), IF ok THEN "ok" ELSE "failed">>)
    /\ tx' = NoTx
    /\ pc' = afterTx(Cur)
    /\ UNCHANGED <<resolverVars, tableExists, fkOn, dialect, calls, idx, si, ret, started,
                   failed, prevCall, atStart>>

\* mutant: the migration's own error wins over the error of the enable step
applyResult_ownErrorFirst(fkErr, e) == IF e # NilErr THEN e ELSE fkErr

\* what applyMigration returns for a DisableFK migration, given the error of
\* the enable step and the error of the transaction
applyResult(fkErr, e) == IF fkErr # NilErr THEN fkErr ELSE e

EnableFKs ==
    /\ pc = "enableFKs"
    /\ \E o \in enableFKs(dialect, fkOn) :
          /\ fkOn' = o.fkOn
          /\ aret' = applyResult(o.err, err)
          /\ trace' = Append(trace, <<"enableFKs", IF o.err = NilErr THEN "ok" ELSE "failed">>)
    /\ pc' = "applyReturn"
    /\ UNCHANGED <<resolverVars, tableExists, log, effects, tx, dialect, calls, idx, si,
                   err, ret, committed, started, failed, prevCall, atStart>>

\* mutant: the loop goes on after a failed migration
upgradeLoop_keepGoing(mErr) == "continue"

\* the loop of Upgrade, on applyMigration's return
upgradeLoop(mErr) == IF mErr # NilErr THEN "return" ELSE "continue"

ApplyReturn ==
    /\ pc = "applyReturn"
    /\ IF upgradeLoop(aret) = "return"
       THEN /\ Return(<<"migration failed", Cur.ID, aret>>)
            /\ UNCHANGED <<idx, started, trace, err, aret>>
       ELSE IF idx >= Len(out.res)
       THEN /\ Return(NilErr)
            /\ UNCHANGED <<idx, started, trace, err, aret>>
       ELSE /\ idx' = idx + 1
            /\ pc' = applyEntry(out.res[idx + 1])
            /\ started' = Append(started, out.res[idx + 1].ID)
            /\ trace' = <<>> /\ err' = NilErr /\ aret' = NilErr
            /\ UNCHANGED ret
    /\ failed' = IF aret # NilErr THEN Append(failed, Cur.ID) ELSE failed
    /\ UNCHANGED <<resolverVars, dbVars, dialect, calls, si, committed, prevCall, atStart>>

Next ==
    \/ \E t \in Strings : StartUpgrade(t)
    \/ EnsureMigrationLog
    \/ EnsureFKChecksEnabled
    \/ GetAppliedMigrations
    \/ FindMigrations
    \/ DisableFKs
    \/ Begin
    \/ PreUpgrade
    \/ ExecStmt
    \/ PostUpgrade
    \/ SaveMigrationToLog
    \/ EndTx
    \/ EnableFKs
    \/ ApplyReturn

Spec == Init /\ [][Next]_vars

(***************************************************************************)
(* Claims about applyMigration and Upgrade.                                *)
(***************************************************************************)
Range(s) == {s[i] : i \in DOMAIN s}
RowsOf(id) == Cardinality({i \in DOMAIN log : log[i].id = id})

\* everything the hooks and statements of m write
EffectsOf(m) ==
    (IF m.PreUpgrade # "nil" THEN {<<m.ID, "pre-upgrade">>} ELSE {})
    \cup {<<m.ID, "exec", j>> : j \in {h \in DOMAIN Split(m.Stmt, ";") :
                                          ~IsBlank(Split(m.Stmt, ";")[h])}}
    \cup (IF m.PostUpgrade # "nil" THEN {<<m.ID, "post-upgrade">>} ELSE {})

\* applyMigration is past its transaction
TxEnded == pc \in {"enableFKs", "applyReturn"} /\ Len(trace) > 0

\* C6: applying a migration is all-or-nothing: the log has a row for m iff
\* m's transaction committed, and then it has exactly one row and every effect
\* of m's hooks and statements; when a hook, a statement or the log write
\* failed the transaction is rolled back and no effect and no row of m
\* remains; an apply that succeeded has added exactly one row.
C6_AllOrNothing ==
    /\ \A i \in DOMAIN migrations :
          LET m == migrations[i]
          IN  /\ RowsOf(m.ID) > 0 <=> m.ID \in committed
              /\ m.ID \in committed => RowsOf(m.ID) = 1 /\ EffectsOf(m) \subseteq effects
              /\ m.ID \notin committed => \A e \in effects : e[1] # m.ID
    /\ (TxEnded /\ err # NilErr) =>
          /\ tx = NoTx
          /\ Cur.ID \notin committed
          /\ RowsOf(Cur.ID) = 0
          /\ \A e \in effects : e[1] # Cur.ID
    /\ (pc = "applyReturn" /\ aret = NilErr) =>
          RowsOf(Cur.ID) = 1 /\ Cur.ID \in committed
C6_Witness ==
    /\ pc = "applyReturn"
    /\ <<"exec", "ok", 1>> \in Range(trace)
    /\ <<"exec", "failed", 3>> \in Range(trace)
    /\ <<"rollback", "ok">> \in Range(trace)
    /\ \A e \in effects : e[1] # Cur.ID
    /\ RowsOf(Cur.ID) = 0

\* C7: Upgrade applies the resolved migrations strictly in resolved order and
\* stops at the first that fails: then no later resolved migration has been
\* started or has left anything, the earlier ones are committed and logged,
\* and Upgrade returns an error naming the failing migration.
C7_StopsAtFirstFailure ==
    /\ out.kind = "return" => started = IdsOf(SubSeq(out.res, 1, idx))
    /\ failed # <<>> =>
          /\ pc = "done"
          /\ failed = <<Cur.ID>>
          /\ ret = <<"migration failed", Cur.ID, aret>>
          /\ aret # NilErr
          /\ \A j \in 1..(idx - 1) :
                out.res[j].ID \in committed /\ RowsOf(out.res[j].ID) = 1
          /\ \A j \in (idx + 1)..Len(out.res) :
                /\ out.res[j].ID \notin Range(started)
                /\ RowsOf(out.res[j].ID) = 0
                /\ \A e \in effects \cup tx.effects : e[1] # out.res[j].ID
C7_Witness ==
    /\ pc = "done" /\ failed # <<>>
    /\ Len(out.res) = 3 /\ idx = 2
    /\ RowsOf(out.res[1].ID) = 1 /\ RowsOf(out.res[2].ID) = 0

\* C8: when the disable step of a DisableFK migration succeeded, the enable
\* step is invoked once the transaction has ended, whether it committed, was
\* rolled back or could not begin, so that when applyMigration has finished
\* with a successful enable step, foreign-key enforcement is on.
C8_Case ==
    /\ pc = "applyReturn"
    /\ Cur.DisableFK
    /\ <<"disableFKs", "ok">> \in Range(trace)
C8_ForeignKeysRestored ==
    C8_Case =>
        /\ Len(trace) >= 3
        /\ trace[Len(trace)][1] = "enableFKs"
        /\ \/ trace[Len(trace) - 1][1] \in {"commit", "rollback"}
           \/ trace[Len(trace) - 1] = <<"begin", "failed">>
        /\ trace[Len(trace)] = <<"enableFKs", "ok">> => fkOn
C8_Witness ==
    /\ C8_Case
    /\ dialect = DialectSQLite
    /\ <<"rollback", "ok">> \in Range(trace)
    /\ trace[Len(trace)] = <<"enableFKs", "ok">>
    /\ fkOn

\* C9 (as claimed): after a failed Upgrade run, the next Upgrade call with
\* the same migrations and target resolves successfully, and to exactly the
\* tail the failed run had left, beginning with the migration that failed.
C9_RetryResolvesFromFailed ==
    (Resolved /\ prevCall.failed # "" /\ prevCall.targetID = targetID) =>
        /\ out.kind = "return" /\ out.err = NilErr
        /\ IdsOf(out.res) = prevCall.tail
        /\ out.res[1].ID = prevCall.failed

\* C9 (amended): the same, for a failed run in which the transaction of the
\* failing migration did not commit.
C9_Case ==
    /\ Resolved /\ prevCall.failed # "" /\ prevCall.targetID = targetID
    /\ prevCall.failed \notin aMapOf(applied)
C9_RetryAfterRollback ==
    C9_Case =>
        /\ out.kind = "return" /\ out.err = NilErr
        /\ IdsOf(out.res) = prevCall.tail
        /\ out.res[1].ID = prevCall.failed
        /\ \A j \in DOMAIN out.res : out.res[j].ID \notin Range(applied)
C9_Witness ==
    /\ C9_Case
    /\ Len(applied) = 1
    /\ Len(out.res) = 2
    /\ Len(migrations) = 3

\* C10: each migration is recorded at most once: the log never holds an id
\* twice, as findMigrationsToApply returns no migration whose id is applied
\* and no id twice.
C10_LoggedAtMostOnce ==
    /\ \A i, j \in DOMAIN log : log[i].id = log[j].id => i = j
    /\ out.kind = "return" =>
          /\ \A k \in DOMAIN out.res : out.res[k].ID \notin aMapOf(applied)
          /\ \A k, h \in DOMAIN out.res : out.res[k].ID = out.res[h].ID => k = h
C10_Witness ==
    /\ calls = 2 /\ pc = "done" /\ ret = NilErr
    /\ Len(applied) = 1
    /\ Len(log) = 3

\* a validation error of the resolver has ended the running Upgrade call
ValidationFailed == pc = "done" /\ out.kind = "return" /\ out.err # NilErr

\* C11 (as claimed): when chain resolution returns a validation error,
\* Upgrade returns that error before any hook, statement, foreign-key toggle
\* or log write of a migration, and the call has changed nothing in the
\* database.
C11_ValidationErrorNoSideEffects ==
    ValidationFailed =>
        /\ ret = out.err
        /\ started = <<>> /\ trace = <<>> /\ tx = NoTx
        /\ [tableExists |-> tableExists, log |-> log, effects |-> effects,
            fkOn |-> fkOn] = atStart

\* C11 (amended): the same, except that the call may have created the log
\* table and switched foreign-key enforcement on (ensureMigrationLog and
\* ensureFKChecksEnabled run before the resolver): the log rows and the
\* effects of migrations are as the call found them.
C11_ValidationErrorNoMigrationEffects ==
    ValidationFailed =>
        /\ ret = out.err
        /\ started = <<>> /\ trace = <<>> /\ tx = NoTx
        /\ log = atStart.log /\ effects = atStart.effects
        /\ tableExists
        /\ fkOn \in {atStart.fkOn, TRUE}
C11_Witness ==
    /\ ValidationFailed
    /\ calls = 2
    /\ Len(log) = 1
    /\ out.err[1] = "target migration with ID not found"

\* C12: when the foreign-key enable step fails, applyMigration returns that
\* failure, not the error of the migration itself, also when the
\* transaction committed: then the row of the migration is in the log while
\* Upgrade reports the migration as failed.
C12_Case ==
    /\ pc \in {"applyReturn", "done"}
    /\ Len(trace) > 0
    /\ trace[Len(trace)] = <<"enableFKs", "failed">>
C12_EnableFailureOverrides ==
    C12_Case =>
        /\ aret = <<"sqlite: disable FK constraints">>
        /\ aret # err
        /\ <<"commit", "ok">> \in Range(trace) =>
              err = NilErr /\ RowsOf(Cur.ID) = 1 /\ Cur.ID \in committed
        /\ pc = "done" => ret = <<"migration failed", Cur.ID, aret>>
C12_Witness ==
    /\ C12_Case
    /\ pc = "done"
    /\ <<"commit", "ok">> \in Range(trace)
    /\ RowsOf(Cur.ID) = 1
    /\ ret[1] = "migration failed"

\* the steps applyMigration(m) takes inside its transaction, in order
InTxSteps(m) ==
    LET segs == Split(m.Stmt, ";")
        execs == {j \in DOMAIN segs : ~IsBlank(segs[j])}
        RECURSIVE inOrder(_)
        inOrder(S) == IF S = {} THEN <<>>
                      ELSE LET j == CHOOSE x \in S : \A y \in S : x <= y
                           IN  <<(<<"exec", j>>)>> \o inOrder(S \ {j})
    IN  (IF m.PreUpgrade # "nil" THEN <<(<<"pre-upgrade">>)>> ELSE <<>>)
        \o inOrder(execs)
        \o (IF m.PostUpgrade # "nil" THEN <<(<<"post-upgrade">>)>> ELSE <<>>)
        \o <<(<<"saveMigrationToLog">>)>>

InTxNames == {"pre-upgrade", "exec", "post-upgrade", "saveMigrationToLog"}
StepKey(e) == IF e[1] = "exec" THEN <<"exec", e[3]>> ELSE <<e[1]>>

\* C15: inside the transaction of a migration the steps run in the order
\* pre-hook, non-blank statements in textual order, post-hook, log write; the
\* first step that fails skips all later ones, so the log write is attempted
\* only after the pre-hook, every statement and the post-hook succeeded;
\* foreign keys are disabled before the transaction begins and enabled after
\* it has committed or rolled back.
C15_StepOrder ==
    trace # <<>> =>
        LET t == trace
            b == IF Cur.DisableFK THEN 2 ELSE 1   \* where Begin is in the trace
            steps == InTxSteps(Cur)
        IN  \A q \in DOMAIN t :
              /\ t[q][1] = "disableFKs" <=> (Cur.DisableFK /\ q = 1)
              /\ t[q][1] = "begin" <=> q = b
              /\ t[q][1] \in InTxNames =>
                    /\ q - b \in DOMAIN steps
                    /\ StepKey(t[q]) = steps[q - b]
                    /\ \A h \in 1..(q - 1) : t[h][2] = "ok"
              /\ t[q][1] = "commit" =>
                    /\ q = b + Len(steps) + 1
                    /\ \A h \in 1..(q - 1) : t[h][2] = "ok"
              /\ t[q][1] = "rollback" =>
                    /\ q > b + 1
                    /\ t[q - 1][1] \in InTxNames /\ t[q - 1][2] = "failed"
              /\ t[q][1] = "enableFKs" =>
                    /\ Cur.DisableFK /\ q = Len(t) /\ q > b
                    /\ \/ t[q - 1][1] \in {"commit", "rollback"}
                       \/ t[q - 1] = <<"begin", "failed">>
              /\ t[q][1] \in {"disableFKs", "begin", "commit", "rollback", "enableFKs"}
                    \cup InTxNames
C15_Witness ==
    /\ pc = "applyReturn"
    /\ trace = << <<"disableFKs", "ok">>, <<"begin", "ok">>, <<"exec", "ok", 1>>,
                  <<"post-upgrade", "failed">>, <<"rollback", "ok">>,
                  <<"enableFKs", "ok">> >>

\* C17: starting from an empty log, after any Upgrade calls on the same valid
\* chain, whatever their targets and failures, the ids in the log are a
\* prefix id_1..id_K of the chain order, appended in that order: no call
\* leaves a gap or logs a migration before its predecessor.
C17_LogIsChainPrefix ==
    ValidChain(migrations) =>
        /\ Len(log) <= Len(migrations)
        /\ \A i \in DOMAIN log : log[i].id = ChainOf(migrations)[i].ID
C17_Witness ==
    /\ ValidChain(migrations)
    /\ calls = 2 /\ pc = "done"
    /\ prevCall.failed # ""
    /\ Len(applied) = 1 /\ Len(log) = 3
=============================================================================
